---- MODULE Spec2Model ----
(***************************************************************************)
(* A model of the lock-free arena of src/skl/arena.rs: the shared region   *)
(* (atomic 32-bit cursor n, zeroed byte buffer, atomic reference count),   *)
(* the handles that share it, and the operations allocate, put_key,        *)
(* put_val, put_node, new_node, get_node, get_key, get_val, clone, drop.   *)
(*                                                                         *)
(* Numbers.  The cursor is a u32 and the capacity a (64-bit) usize, and    *)
(* the code mixes the two (`offset as usize <= cap`, `cap as u32`).  The   *)
(* model checker's integers stop below 2^31, so a machine number is kept   *)
(* as a pair <<hi, lo>> of value hi * 2^16 + lo with 0 <= lo < 2^16.  A    *)
(* u32 has hi < 2^16 and wraps modulo 2^32 exactly as in the code.  A u64  *)
(* expiry is kept as four 16-bit limbs, most significant first.            *)
(***************************************************************************)
EXTENDS Integers, Sequences, FiniteSets, TLC

VARIABLES
  cap,            \* Arena.cap / AlignedVec.cap: the region's capacity (usize)
  overflowChecks, \* the build: TRUE when u32 `+`/`-` panic on overflow (debug)
  n,              \* Shared.n: the atomic u32 cursor
  refs,           \* Shared.refs: the atomic reference count
  mem,            \* the bytes written so far, by address offset from data_ptr
  freed,          \* how many times the Shared box (and its buffer) was freed
  hs,             \* per handle: "none" (not created), "live", "gone" (dropped)
  via,            \* per thread: the handle its operation borrows (0: none)
  pc,             \* per thread: where it is inside an operation
  loc,            \* per thread: the locals of the operation in progress
  allocs,         \* history: every allocate call, in fetch_add order
  keysPut,        \* history: every put_key call that returned
  valsPut,        \* history: every put_val call that returned
  nodesMade,      \* history: every new_node call that returned
  nops,           \* operations started so far (bounds the run)
  ub,             \* undefined behaviour has been executed
  crashed,        \* the process was killed by it
  ret             \* the last call of an accessor: its argument and result

vars == <<cap, overflowChecks, n, refs, mem, freed, hs, via, pc, loc, allocs,
          keysPut, valsPut, nodesMade, nops, ub, crashed, ret>>

(***************************************************************************)
(* Bounds of the model.                                                    *)
(***************************************************************************)
MaxOps == 3
MaxHandles == 2

Handles == 1..MaxHandles

\* the threads that work on the region, through any live handle (Arena is
\* Send and Sync)
Threads == {1, 2}

(***************************************************************************)
(* Machine numbers.                                                        *)
(***************************************************************************)
W16 == 65536

Big(x) == <<x \div W16, x % W16>>

BAdd(a, b) ==
  LET s == a[2] + b[2]
  IN  <<a[1] + b[1] + (s \div W16), s % W16>>

BLeq(a, b) == a[1] < b[1] \/ (a[1] = b[1] /\ a[2] <= b[2])

BLt(a, b) == a[1] < b[1] \/ (a[1] = b[1] /\ a[2] < b[2])

\* x as u32: the low 32 bits
AsU32(a) == <<a[1] % W16, a[2]>>

FitsU32(a) == a[1] < W16

\* a - b on u32 operands, reduced modulo 2^32
SubU32(a, b) ==
  LET lo == a[2] - b[2]
      borrow == IF lo < 0 THEN 1 ELSE 0
  IN  <<(a[1] - b[1] - borrow + 2 * W16) % W16, (lo + W16) % W16>>

\* a & !m for a mask m = 2^k - 1 < 2^16, on a u32
AndNot(a, m) == <<a[1], a[2] - (a[2] % (m + 1))>>

BMax(a, b) == IF BLeq(a, b) THEN b ELSE a


(***************************************************************************)
(* The node layout (super::Node) and the key and value collaborators       *)
(* (crate::key, crate::value) are used by arena.rs but defined elsewhere   *)
(* in the crate; they are modelled from the data model of the              *)
(* specification: a 16-byte header (key_offset u32, key_size u16, height   *)
(* u8, timestamped u8, value u64) followed by MAX_HEIGHT 4-byte links.     *)
(***************************************************************************)
MAX_HEIGHT == 20
OFFSET_SIZE == 4
HEADER_SIZE == 16
TOWER_OFFSET == HEADER_SIZE
MAX_NODE_SIZE == HEADER_SIZE + MAX_HEIGHT * OFFSET_SIZE
NODE_ALIGN == 7
TIMESTAMP_SIZE == 8

\* byte offsets of the header fields inside a node
KEY_OFFSET_AT == 0
KEY_SIZE_AT == 4
HEIGHT_AT == 6
TIMESTAMPED_AT == 7
VAL_AT == 8

\* Node::encode_value: value offset and encoded size packed into one u64,
\* as limbs <<size.hi, size.lo, offset.hi, offset.lo>>
EncodeValue(valOffset, valSize) ==
  <<valSize[1], valSize[2], valOffset[1], valOffset[2]>>

DecodeValue(w) == [offset |-> <<w[3], w[4]>>, size |-> <<w[1], w[2]>>]

\* ValueRef: a meta byte and the user's bytes; encode writes the meta byte
\* then the bytes, decode reads them back
EncodedSize(val) == 1 + Len(val.data)

Encode(val) == <<val.meta>> \o val.data

Decode(bytes) ==
  [meta |-> bytes[1], data |-> SubSeq(bytes, 2, Len(bytes))]

(***************************************************************************)
(* Byte encodings.  Indet stands for a byte whose value the program does   *)
(* not determine (read outside the buffer).                                *)
(***************************************************************************)
Indet == -1

Zero64 == <<0, 0, 0, 0>>

\* u64::to_be_bytes
ToBeBytes(e) ==
  <<e[1] \div 256, e[1] % 256, e[2] \div 256, e[2] % 256,
    e[3] \div 256, e[3] % 256, e[4] \div 256, e[4] % 256>>

\* u64::from_be_bytes
FromBeBytes(b) ==
  IF \E i \in 1..8 : b[i] = Indet
    THEN <<Indet, Indet, Indet, Indet>>
    ELSE <<b[1] * 256 + b[2], b[3] * 256 + b[4],
           b[5] * 256 + b[6], b[7] * 256 + b[8]>>

\* native (little-endian) bytes of a u64, a u32, a u16 and a u8 store;
\* the narrowing casts `as u16` and `as u8` keep the low bits
LeBytes64(w) ==
  <<w[4] % 256, w[4] \div 256, w[3] % 256, w[3] \div 256,
    w[2] % 256, w[2] \div 256, w[1] % 256, w[1] \div 256>>

LeBytes32(a) == <<a[2] % 256, a[2] \div 256, a[1] % 256, a[1] \div 256>>

LeBytes16(x) == <<x % 256, (x \div 256) % 256>>

LeBytes8(x) == <<x % 256>>

HasIndet(b) == \E i \in 1..Len(b) : b[i] = Indet

FromLe64(b) ==
  IF HasIndet(b) THEN <<Indet, Indet, Indet, Indet>>
  ELSE <<b[7] + 256 * b[8], b[5] + 256 * b[6],
         b[3] + 256 * b[4], b[1] + 256 * b[2]>>

FromLe32(b) ==
  IF HasIndet(b) THEN <<Indet, Indet>>
  ELSE <<b[3] + 256 * b[4], b[1] + 256 * b[2]>>

FromLe16(b) == IF HasIndet(b) THEN Indet ELSE b[1] + 256 * b[2]

(***************************************************************************)
(* The buffer.  AlignedVec::new zeroes cap bytes; mem holds the bytes      *)
(* written since, an address being its distance from data_ptr.             *)
(***************************************************************************)
InBounds(addr, len) == BLeq(BAdd(addr, Big(len)), cap)

\* one byte at data_ptr + addr
ReadByte(addr) ==
  IF addr \in DOMAIN mem THEN mem[addr]
  ELSE IF BLt(addr, cap) THEN 0 ELSE Indet

\* slice::from_raw_parts(get_data_ptr(addr), len)
ReadBytes(addr, len) == [i \in 1..len |-> ReadByte(BAdd(addr, Big(i - 1)))]

\* the memory after storing bytes at data_ptr + addr
WriteBytes(m, addr, bytes) ==
  LET at == [i \in 1..Len(bytes) |-> BAdd(addr, Big(i - 1))]
      new == {at[i] : i \in 1..Len(bytes)}
  IN  [a \in (DOMAIN m) \cup new |->
         IF a \in new THEN bytes[CHOOSE i \in 1..Len(bytes) : at[i] = a]
         ELSE m[a]]

\* A store through a raw pointer.  Inside the buffer it changes the bytes.
\* Outside it is undefined behaviour: the process is killed, or the bytes
\* land in whatever memory lies there.
Store(addr, bytes) ==
  IF Len(bytes) = 0 \/ InBounds(addr, Len(bytes))
    THEN /\ mem' = WriteBytes(mem, addr, bytes)
         /\ UNCHANGED <<ub, crashed>>
    ELSE /\ ub' = TRUE
         /\ \/ crashed' = TRUE /\ mem' = mem
            \/ crashed' = crashed /\ mem' = WriteBytes(mem, addr, bytes)

(***************************************************************************)
(* Inputs.                                                                 *)
(***************************************************************************)
\* the sizes passed to Arena::new: one below MAX_NODE_SIZE and one above
\* the range of a u32 (2^32 + 64)
NewSizes == {Big(0), <<W16, 64>>}

\* the sizes passed to allocate: small ones, one maximum node, and one that
\* takes a u32 cursor through the end of its range (2^32 - 1)
AllocSizes == {Big(0), Big(3), Big(MAX_NODE_SIZE), <<W16 - 1, W16 - 1>>}

\* an expiry of 0x0000000001020304
Expiry1 == <<0, 0, 258, 772>>

Keys ==
  {[data |-> <<>>, expires_at |-> Zero64],
   [data |-> <<97, 98>>, expires_at |-> Zero64],
   [data |-> <<97, 98>>, expires_at |-> Expiry1]}

Values == {[meta |-> 1, data |-> <<>>], [meta |-> 2, data |-> <<120, 121>>]}

NodeKeys == {[data |-> <<107>>, expires_at |-> Expiry1]}

NodeValues == {[meta |-> 3, data |-> <<118>>]}

Heights == {1, MAX_HEIGHT - 2, MAX_HEIGHT}

\* allocate putting the cursor back when the call fails
Allocate_RollsBack(cur, sz) ==
  LET sum == BAdd(cur, sz)
      offset == AsU32(sum)
      ok == ~(overflowChecks /\ ~FitsU32(sum)) /\ BLeq(offset, cap)
  IN  [n   |-> IF ok THEN AsU32(sum) ELSE cur,
       ok  |-> ok,
       off |-> SubU32(offset, sz)]

\* allocate with the capacity test `<` in place of `<=`
Allocate_StrictTest(cur, sz) ==
  LET sum == BAdd(cur, sz)
      offset == AsU32(sum)
  IN  [n   |-> AsU32(sum),
       ok  |-> /\ ~(overflowChecks /\ ~FitsU32(sum))
               /\ BLt(offset, cap),
       off |-> SubU32(offset, sz)]

(***************************************************************************)
(* Arena::allocate (lines 273-280): the fetch_add on n wraps modulo 2^32   *)
(* and always happens; `+ sz` panics on overflow in a build with overflow  *)
(* checks and wraps otherwise; then the capacity assertion; then           *)
(* `offset - sz`.  The result: the new cursor, whether the call returned,  *)
(* and the offset it returned.                                             *)
(***************************************************************************)
Allocate(cur, sz) ==
  LET sum == BAdd(cur, sz)
      offset == AsU32(sum)
  IN  [n   |-> AsU32(sum),
       ok  |-> /\ ~(overflowChecks /\ ~FitsU32(sum))
               /\ BLeq(offset, cap),
       off |-> SubU32(offset, sz)]

\* the history entry of an allocate call: who called it (allocate itself,
\* put_key, put_val or put_node with its height), the size asked for, the
\* cursor before and after, whether the call returned, and the offset
AllocEntry(kind, height, cur, sz) ==
  [kind |-> kind, height |-> height, sz |-> sz, before |-> cur,
   after |-> Allocate(cur, sz).n, ok |-> Allocate(cur, sz).ok,
   off |-> Allocate(cur, sz).off]

\* unused_size computed as for a node of the maximum height
UnusedSize_FullTower(height) == (MAX_HEIGHT - MAX_HEIGHT) * OFFSET_SIZE

\* Arena::unused_size
UnusedSize(height) == (MAX_HEIGHT - height) * OFFSET_SIZE

\* the size put_node asks allocate for
NodeAllocSize(height) == MAX_NODE_SIZE - UnusedSize(height) + NODE_ALIGN

\* put_node's result from allocate's: (n + NODE_ALIGN) & !NODE_ALIGN, the
\* addition panicking on overflow in a build with overflow checks
AlignedOffset(off) ==
  LET sum == BAdd(off, Big(NODE_ALIGN))
  IN  [ok  |-> ~(overflowChecks /\ ~FitsU32(sum)),
       off |-> AndNot(AsU32(sum), NODE_ALIGN)]

\* raw pointers: null, or data_ptr + at
NullPtr == [null |-> TRUE, at |-> Big(0)]

PtrAt(a) == [null |-> FALSE, at |-> a]

\* get_node returning the node's own offset as the second element
GetNode_NodeOffset(offset) ==
  IF offset = Big(0) \/ ~BLt(offset, AsU32(cap))
    THEN [ptr |-> NullPtr, off |-> Big(0), panics |-> FALSE]
    ELSE [ptr |-> PtrAt(offset), off |-> offset, panics |-> FALSE]

\* Arena::get_node: null and 0 for offset 0 and for an offset not below
\* `cap as u32`; else the address and offset + TOWER_OFFSET, an addition
\* that panics on overflow in a build with overflow checks
GetNode(offset) ==
  IF offset = Big(0) \/ ~BLt(offset, AsU32(cap))
    THEN [ptr |-> NullPtr, off |-> Big(0), panics |-> FALSE]
    ELSE [ptr |-> PtrAt(offset),
          off |-> AsU32(BAdd(offset, Big(TOWER_OFFSET))),
          panics |-> overflowChecks /\ ~FitsU32(BAdd(offset, Big(TOWER_OFFSET)))]

\* Arena::get_node_offset
GetNodeOffset(ptr) == IF ptr.null THEN Big(0) ELSE AsU32(ptr.at)

\* Arena::get_key
GetKey(offset, size, timestamped) ==
  [expires_at |-> IF timestamped
                    THEN FromBeBytes(ReadBytes(BAdd(offset, Big(size)), TIMESTAMP_SIZE))
                    ELSE Zero64,
   data |-> ReadBytes(offset, size)]

\* Arena::get_val
GetVal(offset, size) == Decode(ReadBytes(offset, size))

\* Arena::tower: the address, as a distance from data_ptr, of the link word
\* of the level `height` counted from `offset`; a word is an AtomicU32
Tower(offset, height) == BAdd(offset, Big(height * OFFSET_SIZE))

\* put_key: the size it allocates and the bytes it stores
IsTimestamped(key) == key.expires_at # Zero64

\* put_key allocating the key's length whatever the expiry
KeyAllocSize_NoSuffix(key) == Len(key.data)

KeyAllocSize(key) ==
  IF IsTimestamped(key) THEN TIMESTAMP_SIZE + Len(key.data) ELSE Len(key.data)

KeyBytes(key) ==
  IF IsTimestamped(key) THEN key.data \o ToBeBytes(key.expires_at) ELSE key.data

(***************************************************************************)
(* The reference count is a usize, kept as four 16-bit limbs.              *)
(***************************************************************************)
One64 == <<0, 0, 0, 1>>

\* usize::MAX >> 1
UsizeMaxShr1 == <<32767, 65535, 65535, 65535>>

\* a clone that does not count itself
Inc64_NoCount(w) == w

\* fetch_add(1): wrapping increment
Inc64(w) ==
  IF w[4] < W16 - 1 THEN <<w[1], w[2], w[3], w[4] + 1>>
  ELSE IF w[3] < W16 - 1 THEN <<w[1], w[2], w[3] + 1, 0>>
  ELSE IF w[2] < W16 - 1 THEN <<w[1], w[2] + 1, 0, 0>>
  ELSE <<(w[1] + 1) % W16, 0, 0, 0>>

\* fetch_sub(1): wrapping decrement
Dec64(w) ==
  IF w[4] > 0 THEN <<w[1], w[2], w[3], w[4] - 1>>
  ELSE IF w[3] > 0 THEN <<w[1], w[2], w[3] - 1, W16 - 1>>
  ELSE IF w[2] > 0 THEN <<w[1], w[2] - 1, W16 - 1, W16 - 1>>
  ELSE <<(w[1] + W16 - 1) % W16, W16 - 1, W16 - 1, W16 - 1>>

\* a comparison that never finds the count too large
Gt64_Never(a, b) == FALSE

Gt64(a, b) ==
  \E i \in 1..4 : a[i] > b[i] /\ \A j \in 1..(i - 1) : a[j] = b[j]

(***************************************************************************)
(* The state after Arena::new(size): Shared::new sets the cursor to 1 and  *)
(* the reference count to 1 over a zeroed buffer of                        *)
(* max(size, MAX_NODE_SIZE) bytes, held by one handle.                     *)
(***************************************************************************)
NewCap(size) == BMax(size, Big(MAX_NODE_SIZE))

InitialCursor == Big(1)

InitialRefs == One64

NoKey == [data |-> <<>>, expires_at |-> Zero64]

NoVal == [meta |-> 0, data |-> <<>>]

\* no accessor was called yet
NoRet == [op |-> "none"]

\* the locals of an operation; nai, kai and vai are the places in the
\* history of its node, key and value allocations
NoLoc ==
  [key |-> NoKey, val |-> NoVal, height |-> 0, nalloc |-> Big(0),
   noff |-> Big(0), koff |-> Big(0), voff |-> Big(0),
   nai |-> 0, kai |-> 0, vai |-> 0]

Init ==
  /\ cap \in {NewCap(size) : size \in NewSizes}
  /\ overflowChecks \in BOOLEAN
  /\ n = InitialCursor
  /\ refs = InitialRefs
  /\ mem = <<>>
  /\ freed = 0
  /\ hs = [h \in Handles |-> IF h = 1 THEN "live" ELSE "none"]
  /\ via = [t \in Threads |-> 0]
  /\ pc = [t \in Threads |-> "idle"]
  /\ loc = [t \in Threads |-> NoLoc]
  /\ allocs = <<>>
  /\ keysPut = <<>>
  /\ valsPut = <<>>
  /\ nodesMade = <<>>
  /\ nops = 0
  /\ ub = FALSE
  /\ crashed = FALSE
  /\ ret = NoRet

\* Thread t is between operations and may start one.  Threads are
\* interchangeable, so the idle thread with the least number starts it.
Ready(t) ==
  /\ ~crashed
  /\ pc[t] = "idle"
  /\ \A u \in Threads : u < t => pc[u] # "idle"
  /\ nops < MaxOps

Live(h) == hs[h] = "live"

\* Handles of one region are interchangeable (same data_ptr, cap, inner):
\* an operation borrows the live handle with the least number, and a drop
\* takes the one with the greatest.
FirstLive(h) == Live(h) /\ \A k \in Handles : k < h => ~Live(k)

LastLive(h) == Live(h) /\ \A k \in Handles : k > h => ~Live(k)

\* thread t starts an operation on handle h, borrowing it
Begin(t, h) == Ready(t) /\ Live(h) /\ nops' = nops + 1

Borrowed(h) == \E t \in Threads : via[t] = h

\* the thread is at step p of an operation
At(t, p) == ~crashed /\ pc[t] = p

\* one allocate call: the cursor moves and the call is recorded
DoAllocate(kind, height, sz) ==
  /\ n' = Allocate(n, sz).n
  /\ allocs' = Append(allocs, AllocEntry(kind, height, n, sz))

\* the operation goes on at step p
Goto(t, h, p) ==
  /\ pc' = [pc EXCEPT ![t] = p]
  /\ via' = [via EXCEPT ![t] = h]

\* the operation is over: it returned, or a panic unwound it
Return(t) ==
  /\ pc' = [pc EXCEPT ![t] = "idle"]
  /\ via' = [via EXCEPT ![t] = 0]
  /\ loc' = [loc EXCEPT ![t] = NoLoc]

(***************************************************************************)
(* allocate called on its own.                                             *)
(***************************************************************************)
AllocateCall(t, h, sz) ==
  /\ Begin(t, h)
  /\ FirstLive(h)
  /\ DoAllocate("allocate", 0, sz)
  /\ UNCHANGED <<ret, cap, overflowChecks, refs, mem, freed, hs, via, pc, loc,
                 keysPut, valsPut, nodesMade, ub, crashed>>

(***************************************************************************)
(* put_key (lines 151-174): allocate, then copy the bytes in.  A failed    *)
(* assertion unwinds the call.                                             *)
(***************************************************************************)
PutKeyAlloc(t, h, key) ==
  /\ Begin(t, h)
  /\ FirstLive(h)
  /\ DoAllocate("put_key", 0, Big(KeyAllocSize(key)))
  /\ LET a == Allocate(n, Big(KeyAllocSize(key)))
     IN  IF a.ok
           THEN /\ Goto(t, h, "pk_write")
                /\ loc' = [loc EXCEPT ![t] =
                             [NoLoc EXCEPT !.key = key, !.koff = a.off,
                                           !.kai = Len(allocs) + 1]]
           ELSE UNCHANGED <<via, pc, loc>>
  /\ UNCHANGED <<ret, cap, overflowChecks, refs, mem, freed, hs,
                 keysPut, valsPut, nodesMade, ub, crashed>>

PutKeyWrite(t) ==
  /\ At(t, "pk_write")
  /\ Store(loc[t].koff, KeyBytes(loc[t].key))
  /\ keysPut' = IF crashed' THEN keysPut
                ELSE Append(keysPut, [key |-> loc[t].key, off |-> loc[t].koff,
                                      ts |-> IsTimestamped(loc[t].key),
                                      ai |-> loc[t].kai])
  /\ Return(t)
  /\ UNCHANGED <<ret, cap, overflowChecks, n, refs, freed, hs, allocs,
                 valsPut, nodesMade, nops>>

(***************************************************************************)
(* put_val (lines 176-182).                                                *)
(***************************************************************************)
PutValAlloc(t, h, val) ==
  /\ Begin(t, h)
  /\ FirstLive(h)
  /\ DoAllocate("put_val", 0, Big(EncodedSize(val)))
  /\ LET a == Allocate(n, Big(EncodedSize(val)))
     IN  IF a.ok
           THEN /\ Goto(t, h, "pv_write")
                /\ loc' = [loc EXCEPT ![t] =
                             [NoLoc EXCEPT !.val = val, !.voff = a.off,
                                           !.vai = Len(allocs) + 1]]
           ELSE UNCHANGED <<via, pc, loc>>
  /\ UNCHANGED <<ret, cap, overflowChecks, refs, mem, freed, hs,
                 keysPut, valsPut, nodesMade, ub, crashed>>

PutValWrite(t) ==
  /\ At(t, "pv_write")
  /\ Store(loc[t].voff, Encode(loc[t].val))
  /\ valsPut' = IF crashed' THEN valsPut
                ELSE Append(valsPut, [val |-> loc[t].val, off |-> loc[t].voff,
                                      ai |-> loc[t].vai])
  /\ Return(t)
  /\ UNCHANGED <<ret, cap, overflowChecks, n, refs, freed, hs, allocs,
                 keysPut, nodesMade, nops>>

(***************************************************************************)
(* new_node (lines 184-207): put_node, put_key, put_val, then get_node and *)
(* the stores into the node's header.                                      *)
(***************************************************************************)
NewNodePutNode(t, h, key, val, height) ==
  /\ Begin(t, h)
  /\ FirstLive(h)
  /\ DoAllocate("put_node", height, Big(NodeAllocSize(height)))
  /\ LET a == Allocate(n, Big(NodeAllocSize(height)))
     IN  IF a.ok /\ AlignedOffset(a.off).ok
           THEN /\ Goto(t, h, "nn_key")
                /\ loc' = [loc EXCEPT ![t] =
                     [NoLoc EXCEPT !.key = key, !.val = val, !.height = height,
                                   !.nalloc = a.off, !.nai = Len(allocs) + 1,
                                   !.noff = AlignedOffset(a.off).off]]
           ELSE UNCHANGED <<via, pc, loc>>
  /\ UNCHANGED <<ret, cap, overflowChecks, refs, mem, freed, hs,
                 keysPut, valsPut, nodesMade, ub, crashed>>

NewNodeKeyAlloc(t) ==
  /\ At(t, "nn_key")
  /\ DoAllocate("put_key", 0, Big(KeyAllocSize(loc[t].key)))
  /\ LET a == Allocate(n, Big(KeyAllocSize(loc[t].key)))
     IN  IF a.ok
           THEN /\ pc' = [pc EXCEPT ![t] = "nn_keyw"]
                /\ loc' = [loc EXCEPT ![t].koff = a.off,
                                       ![t].kai = Len(allocs) + 1]
                /\ via' = via
           ELSE Return(t)
  /\ UNCHANGED <<ret, cap, overflowChecks, refs, mem, freed, hs,
                 keysPut, valsPut, nodesMade, nops, ub, crashed>>

\* The stores of a thread go into the range it reserved and are not
\* synchronised with anything; each is taken together with the next atomic
\* step of the same thread.  Here: the key bytes, then put_val's fetch_add.
NewNodeValAlloc(t) ==
  /\ At(t, "nn_keyw")
  /\ Store(loc[t].koff, KeyBytes(loc[t].key))
  /\ IF crashed'
       THEN UNCHANGED <<n, allocs, via, pc, loc>>
       ELSE /\ DoAllocate("put_val", 0, Big(EncodedSize(loc[t].val)))
            /\ LET a == Allocate(n, Big(EncodedSize(loc[t].val)))
               IN  IF a.ok
                     THEN /\ pc' = [pc EXCEPT ![t] = "nn_valw"]
                          /\ loc' = [loc EXCEPT ![t].voff = a.off,
                                                 ![t].vai = Len(allocs) + 1]
                          /\ via' = via
                     ELSE Return(t)
  /\ UNCHANGED <<ret, cap, overflowChecks, refs, freed, hs,
                 keysPut, valsPut, nodesMade, nops>>

\* the 16 header bytes new_node stores: key_offset, key_size as u16,
\* height as u8, timestamped as u8, and the encoded value word
HeaderBytes(l) ==
  LeBytes32(l.koff) \o LeBytes16(Len(l.key.data)) \o LeBytes8(l.height)
    \o LeBytes8(IF IsTimestamped(l.key) THEN 1 ELSE 0)
    \o LeBytes64(EncodeValue(l.voff, Big(EncodedSize(l.val))))

\* the fields of the node at data_ptr + at, read from the buffer
NodeAt(at) ==
  [key_offset  |-> FromLe32(ReadBytes(BAdd(at, Big(KEY_OFFSET_AT)), 4)),
   key_size    |-> FromLe16(ReadBytes(BAdd(at, Big(KEY_SIZE_AT)), 2)),
   height      |-> ReadByte(BAdd(at, Big(HEIGHT_AT))),
   timestamped |-> ReadByte(BAdd(at, Big(TIMESTAMPED_AT))),
   val         |-> FromLe64(ReadBytes(BAdd(at, Big(VAL_AT)), 8))]

\* what new_node returned, with what it was given and what it allocated
NodeEntry(l, g) ==
  [key |-> l.key, val |-> l.val, height |-> l.height,
   nalloc |-> l.nalloc, noff |-> l.noff, koff |-> l.koff, voff |-> l.voff,
   nai |-> l.nai, kai |-> l.kai, vai |-> l.vai,
   ptr |-> g.ptr, off |-> g.off]

\* The value bytes, then get_node, `&mut *node_ptr` and the five stores of
\* the header.  A null node_ptr makes the dereference undefined behaviour:
\* the process is killed, or it goes on with no header stored in the buffer.
\* A panic in get_node unwinds the call after the value bytes are stored.
NewNodeFields(t) ==
  /\ At(t, "nn_valw")
  /\ LET g == GetNode(loc[t].noff)
         vbytes == Encode(loc[t].val)
         hbytes == HeaderBytes(loc[t])
         vIn == InBounds(loc[t].voff, Len(vbytes))
         hIn == ~g.ptr.null /\ InBounds(g.ptr.at, Len(hbytes))
         m1 == WriteBytes(mem, loc[t].voff, vbytes)
         m2 == IF g.ptr.null THEN m1 ELSE WriteBytes(m1, g.ptr.at, hbytes)
     IN  IF g.panics
           THEN /\ Store(loc[t].voff, vbytes)
                /\ nodesMade' = nodesMade
           ELSE /\ IF vIn /\ hIn
                     THEN mem' = m2 /\ UNCHANGED <<ub, crashed>>
                     ELSE /\ ub' = TRUE
                          /\ \/ crashed' = TRUE /\ mem' = mem
                             \/ crashed' = crashed /\ mem' = m2
                /\ nodesMade' = IF crashed' THEN nodesMade
                                ELSE Append(nodesMade, NodeEntry(loc[t], g))
  /\ Return(t)
  /\ UNCHANGED <<ret, cap, overflowChecks, n, refs, freed, hs, allocs,
                 keysPut, valsPut, nops>>

(***************************************************************************)
(* Clone (lines 327-341) and Drop (lines 343-379).                         *)
(***************************************************************************)
\* the handle a clone creates: the first one not yet used
NextHandle(h2) == hs[h2] = "none" /\ \A k \in Handles : k < h2 => hs[k] # "none"

\* refs.fetch_add(1), abort when the old count is above usize::MAX >> 1
Clone(t, h, h2) ==
  /\ Begin(t, h)
  /\ FirstLive(h)
  /\ NextHandle(h2)
  /\ refs' = Inc64(refs)
  /\ IF Gt64(refs, UsizeMaxShr1)
       THEN crashed' = TRUE /\ hs' = hs
       ELSE crashed' = crashed /\ hs' = [hs EXCEPT ![h2] = "live"]
  /\ UNCHANGED <<ret, cap, overflowChecks, n, mem, freed, via, pc, loc, allocs,
                 keysPut, valsPut, nodesMade, ub>>

\* refs.fetch_sub(1) and the test of the value it returned; the handle is
\* owned by the thread that drops it, so no operation borrows it
DropRelease(t, h) ==
  /\ Begin(t, h)
  /\ LastLive(h)
  /\ ~Borrowed(h)
  /\ refs' = Dec64(refs)
  /\ hs' = [hs EXCEPT ![h] = "gone"]
  /\ IF refs # One64
       THEN UNCHANGED <<via, pc>>
       ELSE Goto(t, 0, "drop_free")
  /\ UNCHANGED <<ret, cap, overflowChecks, n, mem, freed, loc, allocs,
                 keysPut, valsPut, nodesMade, ub, crashed>>

\* a drop that waits for the buffer to have been freed by another
DropFree_Waits(t) ==
  /\ At(t, "drop_free")
  /\ freed > 0
  /\ UNCHANGED vars

\* the acquire load, then drop(Box::from_raw(shared)) frees the buffer
DropFree(t) ==
  /\ At(t, "drop_free")
  /\ freed' = freed + 1
  /\ pc' = [pc EXCEPT ![t] = "idle"]
  /\ UNCHANGED <<ret, cap, overflowChecks, n, refs, mem, hs, via, loc, allocs,
                 keysPut, valsPut, nodesMade, nops, ub, crashed>>

Next ==
  \E t \in Threads :
    \/ \E h \in Handles :
         \/ \E sz \in AllocSizes : AllocateCall(t, h, sz)
         \/ \E key \in Keys : PutKeyAlloc(t, h, key)
         \/ \E val \in Values : PutValAlloc(t, h, val)
         \/ \E key \in NodeKeys, val \in NodeValues, height \in Heights :
              NewNodePutNode(t, h, key, val, height)
         \/ \E h2 \in Handles : Clone(t, h, h2)
         \/ DropRelease(t, h)
    \/ PutKeyWrite(t)
    \/ PutValWrite(t)
    \/ NewNodeKeyAlloc(t)
    \/ NewNodeValAlloc(t)
    \/ NewNodeFields(t)
    \/ DropFree(t)

Spec == Init /\ [][Next]_vars

(***************************************************************************)
(* Scheduling.  Step(t) is the next step of the operation thread t is in.  *)
(* Progress assumes of thread 1 only that it keeps being scheduled while   *)
(* it has a step to take; thread 2 may stop anywhere, also in the middle   *)
(* of an operation.                                                        *)
(***************************************************************************)
Step(t) ==
  \/ PutKeyWrite(t)
  \/ PutValWrite(t)
  \/ NewNodeKeyAlloc(t)
  \/ NewNodeValAlloc(t)
  \/ NewNodeFields(t)
  \/ DropFree(t)

\* the steps an operation at p has yet to take, at most
StepsLeft(p) ==
  CASE p = "idle" -> 0
    [] p = "pk_write" -> 1
    [] p = "pv_write" -> 1
    [] p = "drop_free" -> 1
    [] p = "nn_valw" -> 1
    [] p = "nn_keyw" -> 2
    [] p = "nn_key" -> 3

\* Progress runs the operations the claim of non-blocking names, allocate,
\* clone and drop, and put_key as the operation with a step in the middle
\* of which a thread can stop
ProgressNext ==
  \E t \in Threads :
    \/ \E h \in Handles :
         \/ \E sz \in AllocSizes : AllocateCall(t, h, sz)
         \/ \E key \in Keys : PutKeyAlloc(t, h, key)
         \/ \E h2 \in Handles : Clone(t, h, h2)
         \/ DropRelease(t, h)
    \/ PutKeyWrite(t)
    \/ DropFree(t)

Progress == Init /\ [][ProgressNext]_vars /\ WF_vars(Step(1))

(***************************************************************************)
(* The accessors get_node and get_node_offset, called on their own.  They  *)
(* read cap and data_ptr only and take one step.  Accessors begins as Spec  *)
(* does and lets a thread that could start an operation call an accessor   *)
(* instead, while at most MaxQueryOps operations were started; the call    *)
(* and its result are kept in ret, and the run ends there.                 *)
(***************************************************************************)
MaxQueryOps == 2

\* the offsets passed to get_node: 0, small ones, about `cap as u32` of the
\* larger capacity (64) and about the smaller capacity (96), and the
\* largest below 2^32 - TOWER_OFFSET
QueryOffsets ==
  {Big(0), Big(1), Big(8), Big(63), Big(64), Big(65), Big(MAX_NODE_SIZE - 1),
   Big(MAX_NODE_SIZE), Big(MAX_NODE_SIZE + 1), <<1, 0>>,
   <<W16 - 1, W16 - 1 - TOWER_OFFSET>>}

\* the pointers passed to get_node_offset
QueryPtrs == {NullPtr, PtrAt(Big(0)), PtrAt(Big(8)), PtrAt(<<W16, 8>>)}

CanQuery(t, h) ==
  /\ Ready(t)
  /\ FirstLive(h)
  /\ nops <= MaxQueryOps
  /\ ret = NoRet

GetNodeCall(t, h, offset) ==
  /\ CanQuery(t, h)
  /\ ret' = [op |-> "get_node", arg |-> offset, res |-> GetNode(offset)]
  /\ UNCHANGED <<cap, overflowChecks, n, refs, mem, freed, hs, via, pc, loc,
                 allocs, keysPut, valsPut, nodesMade, nops, ub, crashed>>

GetNodeOffsetCall(t, h, ptr) ==
  /\ CanQuery(t, h)
  /\ ret' = [op |-> "get_node_offset", arg |-> ptr, res |-> GetNodeOffset(ptr)]
  /\ UNCHANGED <<cap, overflowChecks, n, refs, mem, freed, hs, via, pc, loc,
                 allocs, keysPut, valsPut, nodesMade, nops, ub, crashed>>

AccessorsNext ==
  \/ ret = NoRet /\ Next
  \/ \E t \in Threads, h \in Handles :
       \/ \E offset \in QueryOffsets : GetNodeCall(t, h, offset)
       \/ \E ptr \in QueryPtrs : GetNodeOffsetCall(t, h, ptr)

Accessors == Init /\ [][AccessorsNext]_vars

(***************************************************************************)
(* The reference count near the end of the range clone allows.  Counting   *)
(* begins with the region shared by handles that were cloned and are kept  *)
(* (or were forgotten) elsewhere: refs counts them and the one handle the  *)
(* model follows.  Its steps are clone, drop and, between them, allocate.  *)
(***************************************************************************)
\* the counts Counting begins with: 1, usize::MAX >> 1 (the largest a
\* clone accepts) and usize::MAX >> 1 plus 1 (what that clone leaves)
HeldCounts == {One64, UsizeMaxShr1, <<W16 \div 2, 0, 0, 0>>}

CountingInit ==
  /\ cap \in {NewCap(size) : size \in NewSizes}
  /\ overflowChecks \in BOOLEAN
  /\ n = InitialCursor
  /\ refs \in HeldCounts
  /\ mem = <<>>
  /\ freed = 0
  /\ hs = [h \in Handles |-> IF h = 1 THEN "live" ELSE "none"]
  /\ via = [t \in Threads |-> 0]
  /\ pc = [t \in Threads |-> "idle"]
  /\ loc = [t \in Threads |-> NoLoc]
  /\ allocs = <<>>
  /\ keysPut = <<>>
  /\ valsPut = <<>>
  /\ nodesMade = <<>>
  /\ nops = 0
  /\ ub = FALSE
  /\ crashed = FALSE
  /\ ret = NoRet

CountingNext ==
  \E t \in Threads :
    \/ \E h \in Handles :
         \/ \E sz \in AllocSizes : AllocateCall(t, h, sz)
         \/ \E h2 \in Handles : Clone(t, h, h2)
         \/ DropRelease(t, h)
    \/ DropFree(t)

Counting == CountingInit /\ [][CountingNext]_vars

(***************************************************************************)
(* The claims.                                                             *)
(***************************************************************************)
\* the sum of the sizes of the first i allocate calls
RECURSIVE SumTo(_)
SumTo(i) == IF i = 0 THEN Big(0) ELSE BAdd(SumTo(i - 1), allocs[i].sz)

\* where the cursor would stand after the first i calls if it did not wrap
CursorTo(i) == BAdd(InitialCursor, SumTo(i))

\* the cursor has not passed the end of the u32 range
NoWrap == FitsU32(CursorTo(Len(allocs)))

\* the allocate calls that returned, in fetch_add order
Returned == SelectSeq(allocs, LAMBDA e : e.ok)

RangeEnd(e) == BAdd(e.off, e.sz)

\* C1: the ranges [offset, offset + size) that allocate calls returned are
\* pairwise disjoint and form one contiguous interval that starts at 1: the
\* first begins at 1 and each next one begins where the one before ended.
C1_DisjointContiguous ==
  LET r == Returned
  IN  /\ \A i \in 1..Len(r) :
           r[i].off = IF i = 1 THEN Big(1) ELSE RangeEnd(r[i - 1])
      /\ \A i, j \in 1..Len(r) :
           i < j => \/ BLeq(RangeEnd(r[i]), r[j].off)
                    \/ BLeq(RangeEnd(r[j]), r[i].off)

\* C1 holds for as long as the cursor has not wrapped
C1_UntilWrap == NoWrap => C1_DisjointContiguous

\* C2: the buffer is freed at most once; it is not freed, nor about to be,
\* while a handle is live (so dropping fewer than all handles never frees
\* it); and once every handle is dropped it has been freed exactly once.
C2_Refcount ==
  /\ freed <= 1
  /\ (\E h \in Handles : Live(h)) =>
       freed = 0 /\ \A t \in Threads : pc[t] # "drop_free"
  /\ ((\A h \in Handles : ~Live(h)) /\ (\A t \in Threads : pc[t] # "drop_free"))
       => freed = 1

\* C2 witness: the handle was cloned, both handles were dropped, and the
\* buffer was freed once
C2_Witness == freed = 1 /\ hs[1] = "gone" /\ hs[2] = "gone"

C4_NeverOffsetZero ==
  \A i \in 1..Len(allocs) : allocs[i].ok => allocs[i].off # Big(0)

\* C4 holds for as long as the cursor has not wrapped
C4_UntilWrap == NoWrap => C4_NeverOffsetZero

\* C5: the capacity is at least MAX_NODE_SIZE, and the first allocation on
\* a fresh arena succeeds when it is the node allocation of put_node, for
\* any height.
C5_FirstNodeAllocationSucceeds ==
  /\ BLeq(Big(MAX_NODE_SIZE), cap)
  /\ (Len(allocs) >= 1 /\ allocs[1].kind = "put_node") => allocs[1].ok

\* every allocate call so far returned
AllReturned == \A i \in 1..Len(allocs) : allocs[i].ok

\* C6: with every allocation so far successful, get_key with the offset and
\* flag a put_key call returned and the key's length reproduces the key's
\* bytes and expiry, whatever was allocated and written since; a key with
\* expiry 0 was stored without the timestamp suffix and unflagged.
C6_KeyRoundTrip ==
  AllReturned =>
    \A i \in 1..Len(keysPut) :
      LET r == keysPut[i]
      IN  /\ GetKey(r.off, Len(r.key.data), r.ts) = r.key
          /\ r.key.expires_at = Zero64 =>
               ~r.ts /\ allocs[r.ai].sz = Big(Len(r.key.data))

\* C6 holds for as long as the cursor has not wrapped
C6_UntilWrap == NoWrap => C6_KeyRoundTrip

\* C7: with every allocation so far successful, get_val with the offset a
\* put_val call returned and the value's encoded size decodes the value
\* that was put, whatever was allocated and written since.
C7_ValueRoundTrip ==
  AllReturned =>
    \A i \in 1..Len(valsPut) :
      LET r == valsPut[i]
      IN  GetVal(r.off, EncodedSize(r.val)) = r.val

\* C7 holds for as long as the cursor has not wrapped
C7_UntilWrap == NoWrap => C7_ValueRoundTrip

\* the ranges of two allocations do not overlap
Apart(a, b) == BLeq(RangeEnd(a), b.off) \/ BLeq(RangeEnd(b), a.off)

\* what C8 says of one new_node call that returned
Populated(r) ==
  LET node == NodeAt(r.ptr.at)
  IN  /\ ~r.ptr.null
      /\ node.key_offset = r.koff
      /\ node.key_size = Len(r.key.data)
      /\ node.timestamped = (IF IsTimestamped(r.key) THEN 1 ELSE 0)
      /\ GetKey(node.key_offset, node.key_size, node.timestamped # 0) = r.key
      /\ node.height = r.height
      /\ DecodeValue(node.val) =
           [offset |-> r.voff, size |-> Big(EncodedSize(r.val))]
      /\ r.nai < r.kai
      /\ r.kai < r.vai
      /\ Apart(allocs[r.nai], allocs[r.kai])
      /\ Apart(allocs[r.nai], allocs[r.vai])
      /\ Apart(allocs[r.kai], allocs[r.vai])

\* C8: for every new_node call that returned, the node's header holds the
\* key's offset, size and timestamp flag, from which get_key reproduces the
\* key passed in, the height passed in, and a value word that decodes to the
\* stored value's offset and encoded size; the node, key and value regions
\* were allocated in that order and are pairwise disjoint.
C8_NodePopulated == \A i \in 1..Len(nodesMade) : Populated(nodesMade[i])

\* C8 holds for as long as the cursor has not wrapped, on a capacity that
\* fits a u32
C8_UntilWrapSmallCap == (NoWrap /\ FitsU32(cap)) => C8_NodePopulated

\* C8 fails without a wrapped cursor on a capacity above the u32 range
C8_UntilWrap == NoWrap => C8_NodePopulated

\* C9 as stated: the offset new_node returned is the offset of the pointer
\* it returned from the region base, get_node_offset(pointer).
C9_OffsetOfPointer ==
  \A i \in 1..Len(nodesMade) :
    GetNodeOffset(nodesMade[i].ptr) = nodesMade[i].off

\* C9 amended: when new_node returned a non-null pointer, the pointer is at
\* the aligned offset put_node returned, and the offset returned with it is
\* get_node_offset(pointer) + TOWER_OFFSET; with a null pointer it is 0.
C9_OffsetOfTower ==
  \A i \in 1..Len(nodesMade) :
    LET r == nodesMade[i]
    IN  IF r.ptr.null
          THEN r.off = Big(0) /\ GetNodeOffset(r.ptr) = Big(0)
          ELSE /\ GetNodeOffset(r.ptr) = r.noff
               /\ r.off = AsU32(BAdd(GetNodeOffset(r.ptr), Big(TOWER_OFFSET)))

\* C9 witness: a new_node call returned a pointer into the buffer
C9_Witness ==
  \E i \in 1..Len(nodesMade) :
    /\ ~nodesMade[i].ptr.null
    /\ nodesMade[i].off = BAdd(nodesMade[i].noff, Big(HEADER_SIZE))

\* C10: the allocation put_node makes for a node of height h moves the
\* cursor (modulo 2^32) by MAX_NODE_SIZE - (MAX_HEIGHT - h) * OFFSET_SIZE +
\* NODE_ALIGN bytes, which is the header, h links and the padding, and for
\* h < MAX_HEIGHT is less than what a node of the maximum height takes.
C10_HeightProportional ==
  \A i \in 1..Len(allocs) :
    LET e == allocs[i]
        size == MAX_NODE_SIZE - (MAX_HEIGHT - e.height) * OFFSET_SIZE + NODE_ALIGN
    IN  e.kind = "put_node" =>
          /\ e.height \in 1..MAX_HEIGHT
          /\ SubU32(e.after, e.before) = Big(size)
          /\ size = HEADER_SIZE + e.height * OFFSET_SIZE + NODE_ALIGN
          /\ e.height < MAX_HEIGHT => size < MAX_NODE_SIZE + NODE_ALIGN

\* C10 witness: node allocations of a height below the maximum and of the
\* maximum height were made
C10_Witness ==
  /\ \E i \in 1..Len(allocs) :
       allocs[i].kind = "put_node" /\ allocs[i].height = MAX_HEIGHT - 2
  /\ \E i \in 1..Len(allocs) :
       allocs[i].kind = "put_node" /\ allocs[i].height = MAX_HEIGHT

\* C11: get_node gives the null pointer and offset 0, without a panic, for
\* offset 0 and for every offset not below the capacity; for every offset o
\* with 0 < o < capacity it gives the pointer data_ptr + o and the offset
\* o + TOWER_OFFSET; get_node_offset gives 0 for the null pointer.
C11_GetNodeByCapacity ==
  /\ ret.op = "get_node" =>
       /\ ~ret.res.panics
       /\ IF ret.arg = Big(0) \/ ~BLt(ret.arg, cap)
            THEN ret.res.ptr = NullPtr /\ ret.res.off = Big(0)
            ELSE /\ ret.res.ptr = PtrAt(ret.arg)
                 /\ ret.res.off = BAdd(ret.arg, Big(TOWER_OFFSET))
  /\ (ret.op = "get_node_offset" /\ ret.arg.null) => ret.res = Big(0)

\* C11 holds on a capacity that fits a u32 and stays 16 below its end
C11_SmallCap ==
  BLeq(cap, <<W16 - 1, W16 - 1 - TOWER_OFFSET>>) => C11_GetNodeByCapacity

\* C12: the cursor never decreases: every allocate call, returning or
\* failing, leaves it at or above where it found it, and each call finds it
\* where the call before left it; so no two ranges handed out share a byte.
C12_CursorOnlyIncreases ==
  /\ \A i \in 1..Len(allocs) :
       /\ BLeq(allocs[i].before, allocs[i].after)
       /\ allocs[i].before = IF i = 1 THEN InitialCursor ELSE allocs[i - 1].after
  /\ n = IF allocs = <<>> THEN InitialCursor ELSE allocs[Len(allocs)].after
  /\ \A i, j \in 1..Len(allocs) :
       (i < j /\ allocs[i].ok /\ allocs[j].ok) => Apart(allocs[i], allocs[j])

\* C12 holds for as long as the cursor has not wrapped
C12_UntilWrap == NoWrap => C12_CursorOnlyIncreases

\* what C13 says of one put_node call that returned offset a for a node of
\* height h from the allocation [at, at + l)
AlignedInside(at, a, h) ==
  LET l == HEADER_SIZE + h * OFFSET_SIZE + NODE_ALIGN
  IN  /\ BLeq(at, a)
      /\ BLeq(a, BAdd(at, Big(NODE_ALIGN)))
      /\ a[2] % (NODE_ALIGN + 1) = 0
      /\ BLeq(BAdd(a, Big(l - NODE_ALIGN)), BAdd(at, Big(l)))

\* C13: the offset a that put_node returned for the allocation [n, n + l)
\* satisfies n <= a <= n + NODE_ALIGN, is a multiple of NODE_ALIGN + 1, and
\* the node bytes [a, a + l - NODE_ALIGN) lie within [n, n + l).
C13_AlignedInside ==
  \A t \in Threads :
    pc[t] = "nn_key" => AlignedInside(loc[t].nalloc, loc[t].noff, loc[t].height)

\* C13 holds for as long as the cursor has not wrapped
C13_UntilWrap == NoWrap => C13_AlignedInside

\* the bytes at data_ptr + addr in the memory m (ReadBytes, of a memory
\* other than the present one)
ReadBytesIn(m, addr, len) ==
  [i \in 1..len |->
     LET a == BAdd(addr, Big(i - 1))
     IN  IF a \in DOMAIN m THEN m[a] ELSE IF BLt(a, cap) THEN 0 ELSE Indet]

\* C14: the put_key call that returns has moved the cursor (modulo 2^32) by
\* the key's length when the expiry is 0 and by the length + 8 otherwise;
\* the bytes at the offset it returns are the key's bytes, followed, only
\* when the expiry is not 0, by the expiry as 8 big-endian bytes (with
\* expiry 0 the 8 bytes after the key are left as they were); and the flag
\* it returns is true exactly when the expiry is not 0.
C14_PutKeyExact ==
  [][\A t \in Threads :
       (pc[t] = "pk_write" /\ pc'[t] = "idle" /\ ~crashed') =>
         LET key == loc[t].key
             len == Len(key.data)
             e == allocs[loc[t].kai]
             after == BAdd(e.off, Big(len))
             put == keysPut'[Len(keysPut')]
         IN  /\ SubU32(e.after, e.before) =
                  Big(IF key.expires_at = Zero64 THEN len ELSE len + 8)
             /\ put.off = e.off
             /\ put.ts = (key.expires_at # Zero64)
             /\ ReadBytesIn(mem', e.off, len) = key.data
             /\ IF key.expires_at # Zero64
                  THEN ReadBytesIn(mem', after, 8) = ToBeBytes(key.expires_at)
                  ELSE ReadBytesIn(mem', after, 8) = ReadBytesIn(mem, after, 8)
    ]_vars

\* C14 witness: put_key returned for a key with expiry 0 and for one with
\* an expiry
C14_Witness ==
  /\ \E i \in 1..Len(keysPut) :
       keysPut[i].key.expires_at = Zero64 /\ Len(keysPut[i].key.data) > 0
  /\ \E i \in 1..Len(keysPut) : keysPut[i].key.expires_at # Zero64

\* the number of live handles is at most the count c
CountsLive(c) ==
  \/ c[1] > 0 \/ c[2] > 0 \/ c[3] > 0
  \/ c[4] >= Cardinality({h \in Handles : Live(h)})

\* C15: a clone step adds exactly one to the reference count, without
\* wrapping; it aborts the process when the count it found is above
\* usize::MAX >> 1 (so also when one more would not fit) and otherwise makes
\* one more live handle; and while the process runs the count is never
\* below the number of live handles.
C15_CloneCounts ==
  [][
      /\ (\E t \in Threads, h, h2 \in Handles : Clone(t, h, h2)) =>
           /\ refs' # Zero64
           /\ Dec64(refs') = refs
           /\ IF refs[1] >= W16 \div 2
                THEN crashed' /\ hs' = hs
                ELSE /\ crashed' = crashed
                     /\ Cardinality({h \in Handles : hs'[h] = "live"}) =
                          Cardinality({h \in Handles : Live(h)}) + 1
      /\ ~crashed => CountsLive(refs)
    ]_vars

\* C15 witness: a clone found the count above usize::MAX >> 1 and aborted
C15_Witness == crashed /\ refs[1] >= W16 \div 2 /\ ~ub

\* the operation of thread t is over: it returned or panicked, or the
\* process was killed
Over(t) == pc[t] = "idle" \/ crashed

\* C16: an operation, once started, always has its next step enabled
\* whatever the other thread is doing, each of its steps leaves it fewer
\* steps to take, and a thread that keeps being scheduled finishes the
\* operation it is in (thread 1 by the fairness of Progress, thread 2 if it
\* is scheduled as well), the other thread running or stopped.
C16_NonBlocking ==
  /\ [](\A t \in Threads : ~Over(t) => ENABLED Step(t))
  /\ [][\A t \in Threads :
          pc'[t] # pc[t] =>
            \/ pc[t] = "idle"
            \/ StepsLeft(pc'[t]) < StepsLeft(pc[t])]_vars
  /\ (~Over(1) ~> Over(1))
  /\ (WF_vars(Step(2)) => (~Over(2) ~> Over(2)))

\* C16 witness: thread 1 finished an operation and completed a clone while
\* thread 2 stayed in the middle of a put_key
C16_Witness ==
  /\ pc[2] = "pk_write"
  /\ pc[1] = "idle"
  /\ hs[2] = "live"
  /\ nops = MaxOps

\* what C17 says of the step in which thread t's put_key or put_val stores
\* its bytes and returns, e being the allocation it made
FrameOf(t, e) ==
  /\ \A a \in DOMAIN mem' :
       (a \notin DOMAIN mem \/ mem'[a] # mem[a]) =>
         BLeq(e.off, a) /\ BLt(a, RangeEnd(e))
  /\ \A a \in DOMAIN mem' : ~BLt(a, n') => mem'[a] = 0
  /\ \A a \in DOMAIN mem : mem'[a] = mem[a]

Writes(t) ==
  /\ pc[t] \in {"pk_write", "pv_write"}
  /\ pc'[t] = "idle"
  /\ ~crashed'

OwnAlloc(t) == allocs[IF pc[t] = "pk_write" THEN loc[t].kai ELSE loc[t].vai]

\* C17: the store of a put_key or put_val call changes only bytes inside
\* the range its own allocate call reserved, after it the bytes at offsets
\* at or beyond the cursor are still zero, and no byte written by an
\* earlier or concurrent call has changed.
C17_Frame ==
  [][\A t \in Threads : Writes(t) => FrameOf(t, OwnAlloc(t))]_vars

\* C17 holds for as long as the cursor has not wrapped
C17_UntilWrap ==
  [][\A t \in Threads : (NoWrap /\ Writes(t)) => FrameOf(t, OwnAlloc(t))]_vars

\* the allocate call i failed the capacity assertion, the sizes up to it
\* summing to less than 2^32
FailedCapacity(i) == FitsU32(CursorTo(i)) /\ ~allocs[i].ok

\* C18: an allocate call that failed the capacity assertion has left the
\* cursor advanced by its size, and every later call, of any size, as long
\* as the sizes sum to less than 2^32, has failed as well; and no step
\* changes a byte outside the ranges of the calls that returned, so a
\* failed call has written nothing.
C18_NotRolledBack ==
  /\ [](\A i \in 1..Len(allocs) :
          FailedCapacity(i) =>
            /\ allocs[i].after = BAdd(allocs[i].before, allocs[i].sz)
            /\ BLt(cap, allocs[i].after)
            /\ \A j \in (i + 1)..Len(allocs) :
                 FitsU32(CursorTo(j)) =>
                   /\ ~allocs[j].ok
                   /\ allocs[j].before = allocs[j - 1].after)
  /\ [][\A a \in DOMAIN mem' :
          (a \notin DOMAIN mem \/ mem'[a] # mem[a]) =>
            \E k \in 1..Len(allocs') :
              /\ allocs'[k].ok
              /\ BLeq(allocs'[k].off, a)
              /\ BLt(a, RangeEnd(allocs'[k]))]_vars

\* C18 witness: an allocate call failed the capacity assertion, and a later
\* call of size 0 failed it too
C18_Witness ==
  \E i, j \in 1..Len(allocs) :
    /\ i < j
    /\ FailedCapacity(i)
    /\ allocs[j].sz = Big(0)
    /\ FailedCapacity(j)

\* the link word of a level of the node r, as the range tower addresses
\* from the offset new_node returned
Slot(r, level) == [off |-> Tower(r.off, level), sz |-> Big(OFFSET_SIZE)]

\* what C19 says of one node new_node returned
TowerInside(r) ==
  \A level \in 0..(r.height - 1) :
    /\ \A other \in 0..(r.height - 1) :
         other # level => Apart(Slot(r, level), Slot(r, other))
    /\ BLeq(allocs[r.nai].off, Slot(r, level).off)
    /\ BLeq(RangeEnd(Slot(r, level)), RangeEnd(allocs[r.nai]))
    /\ ~r.ptr.null
    /\ BLeq(BAdd(r.ptr.at, Big(HEADER_SIZE)), Slot(r, level).off)
    /\ \A k \in 1..Len(allocs) :
         (k # r.nai /\ allocs[k].ok /\ allocs[k].sz # Big(0)) =>
           Apart(Slot(r, level), allocs[k])

\* C19: for a node new_node returned with height h, the link words that
\* tower addresses from the returned offset for the levels 0 to h - 1 are
\* pairwise distinct 4-byte slots inside the range put_node allocated for
\* the node, after the node's header, and overlap no other allocation.
C19_TowerInside == \A i \in 1..Len(nodesMade) : TowerInside(nodesMade[i])

\* C19 holds for as long as the cursor has not wrapped, on a capacity that
\* fits a u32
C19_UntilWrapSmallCap == (NoWrap /\ FitsU32(cap)) => C19_TowerInside

====
